---------------------------- MODULE Spec2Model ----------------------------
(***************************************************************************)
(* Provider abstraction and configuration resolution of the clinical      *)
(* documentation portal:                                                   *)
(*   container/backend/app/core/config.py     SystemConfig, get_settings   *)
(*   container/backend/app/core/providers.py  data contracts, factory      *)
(*                                                                         *)
(* The module holds several specifications over one set of variables:      *)
(*   SpecResolve   one SystemConfig() construction from an environment     *)
(*   SpecSettings  module import, the lru_cache of get_settings, callers   *)
(*   SpecFactory   ProviderFactory registries, register_* and create_*     *)
(*   SpecContracts construction of Citation                                *)
(*   SpecQuery     construction of SearchQuery, its wire form and back     *)
(*   SpecEmbedding construction of EmbeddingResponse                       *)
(* A specification leaves the variables of the others at their idle value. *)
(***************************************************************************)
EXTENDS Integers, FiniteSets, Sequences, TLC

VARIABLES
    env,        \* os.environ and .env as SystemConfig() reads them
    resolved,   \* outcome of the SystemConfig() call under study, NoCall before it
    modState,   \* app.core.config: "unloaded", "importing" or "loaded"
    cache,      \* the lru_cache of get_settings: id of the cached instance, 0 if empty
    settings,   \* the module global `settings`: an instance id, 0 while unbound
    heap,       \* heap[i]: the fields of the i-th SystemConfig instance built
    pc,         \* per thread: position inside get_settings
    ctx,        \* per thread: "import" (module body) or "call" (a caller)
    local,      \* per thread: the instance its SystemConfig() call returned
    rets,       \* ids of the instances get_settings has returned to callers
    calls,      \* number of get_settings calls started by callers
    lastDict,   \* value returned by the last get_provider_config call
    failed,     \* history: some get_settings call of the process has raised
    registry,   \* ProviderFactory._search_providers, _vector_providers, _ai_providers
    latest,     \* per capability and name: the class of the most recent register call
    first,      \* per capability and name: the class of the first register call
    nreg,       \* number of register calls made
    lastResult, \* outcome of the last ProviderFactory call
    obj,        \* the provider instance the last successful create returned
    citation,   \* outcome of the last Citation(...) construction
    query,      \* outcome of the SearchQuery(...) construction under study
    roundtrip,  \* outcome of parsing the wire form of `query` back
    embedding   \* outcome of the last EmbeddingResponse(...) construction

(***************************************************************************)
(* The environment.  Every selector variable is unset, one of its Literal  *)
(* values, or a string outside the Literal ("bogus").  Of the other        *)
(* variables only those without a default decide whether a sub-config can  *)
(* be built, so the environment records which of them are present.         *)
(* given[f] is the value handed to the Optional field f itself (the JSON   *)
(* object of the variable named after the field, or an init keyword):      *)
(* None when nothing is handed in.                                         *)
(***************************************************************************)
AILiteral == {"bedrock", "databricks"}
SearchLiteral == {"opensearch", "databricks_vector"}
Unset == "unset"
Bogus == "bogus"
AIRaw == AILiteral \cup {Unset, Bogus}
SearchRaw == SearchLiteral \cup {Unset, Bogus}

DatabricksRequired ==
    {"workspace_url", "token", "cluster_id", "model_serving_endpoint",
     "vector_search_endpoint"}
OpenSearchRequired == {"endpoint"}
S3Required == {"bucket_name"}
SecurityRequired == {"secret_key"}

\* (model class, field) pairs whose Field(...) has no default
RequiredVars ==
    ({"DatabricksConfig"} \X DatabricksRequired)
        \cup ({"OpenSearchConfig"} \X OpenSearchRequired)
        \cup ({"S3Config"} \X S3Required)
        \cup ({"SecurityConfig"} \X SecurityRequired)

Swappable == {"bedrock", "databricks", "opensearch"}
Infrastructure == {"s3", "delta", "redis", "security"}

ModelOf(family) ==
    CASE family = "bedrock" -> "BedrockConfig"
      [] family = "databricks" -> "DatabricksConfig"
      [] family = "opensearch" -> "OpenSearchConfig"
      [] family = "s3" -> "S3Config"
      [] family = "delta" -> "DeltaConfig"
      [] family = "redis" -> "RedisConfig"
      [] family = "security" -> "SecurityConfig"

\* values of an Optional sub-config field, all of one shape
\* (built counts the constructor calls that produced the value)
None == [kind |-> "None", model |-> "None", fields |-> {}, built |-> 0]
EmptyDict == [kind |-> "dict", model |-> "dict", fields |-> {}, built |-> 0]
Config(model, fields) ==
    [kind |-> "config", model |-> model, fields |-> fields, built |-> 1]
Invalid(model, fields) ==
    [kind |-> "ValidationError", model |-> model, fields |-> fields, built |-> 1]

Given == {None, EmptyDict}

Environments ==
    [ai : AIRaw, search : SearchRaw, vector : SearchRaw,
     present : SUBSET RequiredVars,
     given : [Swappable -> Given]]

(***************************************************************************)
(* BaseSettings construction of one sub-config class: every field without  *)
(* a default must come from the environment, else the constructor raises a *)
(* ValidationError listing the missing fields.                             *)
(***************************************************************************)
RequiredOf(model) == {v[2] : v \in {w \in RequiredVars : w[1] = model}}

MissingOf(model, e) == {f \in RequiredOf(model) : <<model, f>> \notin e.present}

Construct(model, e) ==
    IF MissingOf(model, e) = {}
    THEN Config(model, RequiredOf(model))
    ELSE Invalid(model, MissingOf(model, e))

\* mutants: a required field given a default; a required sub-config made optional
DatabricksConfigDefaulted(e) == Config("DatabricksConfig", RequiredOf("DatabricksConfig"))

S3ConfigOptional(e) ==
    IF MissingOf("S3Config", e) = {} THEN Config("S3Config", RequiredOf("S3Config")) ELSE None

BedrockConfig(e) == Construct("BedrockConfig", e)
DatabricksConfig(e) == Construct("DatabricksConfig", e)
OpenSearchConfig(e) == Construct("OpenSearchConfig", e)
S3Config(e) == Construct("S3Config", e)
DeltaConfig(e) == Construct("DeltaConfig", e)
RedisConfig(e) == Construct("RedisConfig", e)
SecurityConfig(e) == Construct("SecurityConfig", e)

(***************************************************************************)
(* The three selector fields.  A field that fails its Literal check is     *)
(* left out of `values`, so values.get(...) is None for it.                *)
(***************************************************************************)
NoValue == "None"

SelectorValue(raw, default, literal) ==
    LET v == IF raw = Unset THEN default ELSE raw
    IN IF v \in literal THEN v ELSE NoValue

ai_provider(e) == SelectorValue(e.ai, "bedrock", AILiteral)
search_provider(e) == SelectorValue(e.search, "opensearch", SearchLiteral)
vector_provider(e) == SelectorValue(e.vector, "opensearch", SearchLiteral)

Values(e) ==
    [ai_provider |-> ai_provider(e),
     search_provider |-> search_provider(e),
     vector_provider |-> vector_provider(e)]

(***************************************************************************)
(* The pre=True, always=True validators of the three Optional fields.      *)
(* v is the value handed in for the field, None when there is none.        *)
(***************************************************************************)
validate_bedrock_config(v, values, e) ==
    IF values.ai_provider = "bedrock"
    THEN (IF v = None THEN BedrockConfig(e) ELSE v)
    ELSE v

\* mutant: the vector selector is not consulted
validate_databricks_config_no_vector(v, values, e) ==
    IF \/ values.ai_provider = "databricks"
       \/ values.search_provider = "databricks_vector"
    THEN (IF v = None THEN DatabricksConfig(e) ELSE v)
    ELSE v

validate_databricks_config(v, values, e) ==
    IF \/ values.ai_provider = "databricks"
       \/ values.search_provider = "databricks_vector"
       \/ values.vector_provider = "databricks_vector"
    THEN (IF v = None THEN DatabricksConfig(e) ELSE v)
    ELSE v

validate_opensearch_config(v, values, e) ==
    IF \/ values.search_provider = "opensearch"
       \/ values.vector_provider = "opensearch"
    THEN (IF v = None THEN OpenSearchConfig(e) ELSE v)
    ELSE v

\* The type check that follows a pre-validator on Optional[<model>]: None and
\* an instance pass, a dict is turned into an instance, an error raised by the
\* validator stays the field's error.
FieldValidate(model, x, e) ==
    IF x.kind = "dict" THEN Construct(model, e) ELSE x

(***************************************************************************)
(* SystemConfig(): pydantic walks the fields in declaration order.  Errors *)
(* of validated fields are collected and raised together at the end as one *)
(* ValidationError of SystemConfig; a default_factory that raises is not   *)
(* validation of a field, its ValidationError leaves SystemConfig() at     *)
(* once and is the error the caller sees.                                  *)
(***************************************************************************)
NoSelectors ==
    [ai_provider |-> NoValue, search_provider |-> NoValue, vector_provider |-> NoValue]

NoSnapshot ==
    [sel |-> NoSelectors,
     bedrock |-> None, databricks |-> None, opensearch |-> None,
     s3 |-> None, delta |-> None, redis |-> None, security |-> None]

ErrorEntry(loc, x) == [loc |-> loc, model |-> x.model, fields |-> x.fields]

SelectorErrors(e) ==
    {[loc |-> f, model |-> "SystemConfig", fields |-> {f}] :
        f \in {g \in DOMAIN Values(e) : Values(e)[g] = NoValue}}

Raise(by, errors, built) ==
    [ok |-> FALSE, raisedBy |-> by, errors |-> errors, snap |-> NoSnapshot,
     built |-> built]

Return(snap, built) ==
    [ok |-> TRUE, raisedBy |-> "none", errors |-> {}, snap |-> snap, built |-> built]

SystemConfig(e) ==
    LET values == Values(e)
        bedrock ==
            FieldValidate("BedrockConfig",
                          validate_bedrock_config(e.given["bedrock"], values, e), e)
        databricks ==
            FieldValidate("DatabricksConfig",
                          validate_databricks_config(e.given["databricks"], values, e), e)
        opensearch ==
            FieldValidate("OpenSearchConfig",
                          validate_opensearch_config(e.given["opensearch"], values, e), e)
        s3 == S3Config(e)
        delta == DeltaConfig(e)
        redis == RedisConfig(e)
        security == SecurityConfig(e)
        sub == [bedrock |-> bedrock, databricks |-> databricks,
                opensearch |-> opensearch]
        built == [f \in Swappable |-> sub[f].built]
        collected ==
            SelectorErrors(e)
                \cup {ErrorEntry(f, sub[f]) :
                        f \in {g \in Swappable : sub[g].kind = "ValidationError"}}
    IN  IF s3.kind = "ValidationError"
        THEN Raise("S3Config", {ErrorEntry("s3", s3)}, built)
        ELSE IF security.kind = "ValidationError"
        THEN Raise("SecurityConfig", {ErrorEntry("security", security)}, built)
        ELSE IF collected # {}
        THEN Raise("SystemConfig", collected, built)
        ELSE Return([sel |-> values,
                     bedrock |-> bedrock, databricks |-> databricks,
                     opensearch |-> opensearch,
                     s3 |-> s3, delta |-> delta, redis |-> redis,
                     security |-> security], built)

(***************************************************************************)
(* Bounds of the model.                                                    *)
(***************************************************************************)
NumThreads == 2
MaxCalls == 3
MaxRegister == 2
MaxChain == 2
MaxDim == 3

Threads == 1 .. NumThreads

NoDict == [kind |-> "nocall", model |-> "None", fields |-> {}, built |-> 0]

SettingsIdle ==
    /\ modState = "unloaded"
    /\ cache = 0
    /\ settings = 0
    /\ heap = << >>
    /\ pc = [t \in Threads |-> "idle"]
    /\ ctx = [t \in Threads |-> "call"]
    /\ local = [t \in Threads |-> 0]
    /\ rets = {}
    /\ calls = 0
    /\ lastDict = NoDict
    /\ failed = FALSE

(***************************************************************************)
(* ProviderFactory: the three class-level dictionaries, empty when the     *)
(* class is defined.                                                       *)
(***************************************************************************)
Capabilities == {"search", "vector", "ai"}
ProviderNames == {"opensearch", "unknown-model"}

\* the abstract methods of the three ABCs
SearchMethods == {"initialize", "search", "get_suggestions", "health_check"}
VectorMethods ==
    {"initialize", "similarity_search", "index_document", "delete_document",
     "health_check"}
AIMethods == {"initialize", "generate_summary", "generate_embeddings", "health_check"}

InterfaceOf(capability) ==
    CASE capability = "search" -> "SearchProvider"
      [] capability = "vector" -> "VectorProvider"
      [] capability = "ai" -> "AIProvider"

AbstractMethods(base) ==
    CASE base = "SearchProvider" -> SearchMethods
      [] base = "VectorProvider" -> VectorMethods
      [] base = "AIProvider" -> AIMethods
      [] OTHER -> {}

\* classes a caller may hand to register_*: `provider_class: type` is any class
Class(name, base, methods) == [name |-> name, base |-> base, methods |-> methods]

FullSearch == Class("FullSearch", "SearchProvider", SearchMethods)
PartialSearch ==
    Class("PartialSearch", "SearchProvider", SearchMethods \ {"get_suggestions"})
FullVector == Class("FullVector", "VectorProvider", VectorMethods)
FullAI == Class("FullAI", "AIProvider", AIMethods)
Plain == Class("Plain", "object", {"initialize", "health_check"})

Classes == {FullSearch, PartialSearch, FullVector, FullAI, Plain}

NotRegistered == Class("NotRegistered", "none", {})

EmptyRegistry == [c \in Capabilities |-> [n \in ProviderNames |-> NotRegistered]]

NoResult ==
    [op |-> "none", capability |-> "none", name |-> "none", outcome |-> "none",
     cls |-> NotRegistered, mentions |-> {}, registered |-> {}, expected |-> NotRegistered]

\* a provider instance: its class, its position in the life cycle
\* Constructed -> Initialized, and the methods the factory has invoked on it
NoObject == [cls |-> NotRegistered, state |-> "none", invoked |-> {}]

FactoryIdle ==
    /\ obj = NoObject
    /\ registry = EmptyRegistry
    /\ latest = EmptyRegistry
    /\ first = EmptyRegistry
    /\ nreg = 0
    /\ lastResult = NoResult

NoCitation ==
    [ok |-> FALSE, called |-> FALSE, confidence_score |-> 0, provenance_chain |-> << >>,
     page_number |-> 0]

\* A value as pydantic sees it, in memory or on the wire, all of one shape:
\* t is its type, s a string, n an integer, l a list of strings, d a
\* dictionary given as a set of <<key, scalar>> pairs.
Value(t, s, n, l, d) == [t |-> t, s |-> s, n |-> n, l |-> l, d |-> d]
Scalar(t, s, n) == [t |-> t, s |-> s, n |-> n]

VNone == Value("none", "", 0, << >>, {})
VMissing == Value("missing", "", 0, << >>, {})
VError == Value("error", "", 0, << >>, {})
VStr(s) == Value("str", s, 0, << >>, {})
VInt(n) == Value("int", "", n, << >>, {})
VEnum(member) == Value("enum", member, 0, << >>, {})
VList(l) == Value("list", "", 0, l, {})
VDict(d) == Value("dict", "", 0, << >>, d)
DateTime(n) == Scalar("datetime", "", n)
IsoString(s) == Scalar("str", s, 0)

NoFilters ==
    [document_type |-> VNone, study_id |-> VNone, section_codes |-> VNone,
     date_range |-> VNone, access_level |-> VNone]

NoQueryValue ==
    [text |-> VNone, search_type |-> VNone, filters |-> NoFilters,
     limit |-> VNone, offset |-> VNone]

NoQuery == [ok |-> FALSE, called |-> FALSE, value |-> NoQueryValue]

NoEmbedding == [ok |-> FALSE, called |-> FALSE, embedding |-> << >>, dimension |-> 0]

ContractsIdle ==
    /\ citation = NoCitation
    /\ query = NoQuery
    /\ roundtrip = NoQuery
    /\ embedding = NoEmbedding

(***************************************************************************)
(* SpecResolve: one SystemConfig() call against an arbitrary environment.  *)
(***************************************************************************)
NoCall ==
    [ok |-> FALSE, raisedBy |-> "nocall", errors |-> {}, snap |-> NoSnapshot,
     built |-> [f \in Swappable |-> 0]]

settingsVars == <<modState, cache, settings, heap, pc, ctx, local, rets, calls, lastDict,
                  failed>>

factoryVars == <<registry, latest, first, nreg, lastResult, obj>>

contractVars == <<citation, query, roundtrip, embedding>>

vars == <<env, resolved, settingsVars, factoryVars, contractVars>>

InitResolve ==
    /\ env \in Environments
    /\ resolved = NoCall
    /\ SettingsIdle
    /\ FactoryIdle
    /\ ContractsIdle

Resolve ==
    /\ resolved = NoCall
    /\ resolved' = SystemConfig(env)
    /\ UNCHANGED <<factoryVars, contractVars, env, settingsVars>>

NextResolve == Resolve

SpecResolve == InitResolve /\ [][NextResolve]_vars

Called == resolved # NoCall

\* a selector field of the snapshot names the backend family f
Names(sel, f) ==
    CASE f = "bedrock" -> sel.ai_provider = "bedrock"
      [] f = "databricks" ->
            \/ sel.ai_provider = "databricks"
            \/ sel.search_provider = "databricks_vector"
            \/ sel.vector_provider = "databricks_vector"
      [] f = "opensearch" ->
            \/ sel.search_provider = "opensearch"
            \/ sel.vector_provider = "opensearch"

AllDatabricks(sel) ==
    /\ sel.ai_provider = "databricks"
    /\ sel.search_provider = "databricks_vector"
    /\ sel.vector_provider = "databricks_vector"

(***************************************************************************)
(* C1, as stated: in every snapshot a swappable sub-config is non-null     *)
(* exactly when one of the three selectors names its backend.              *)
(***************************************************************************)
C1_SubConfigIffSelected ==
    resolved.ok =>
        \A f \in Swappable : (resolved.snap[f] # None) <=> Names(resolved.snap.sel, f)

(***************************************************************************)
(* C1, amended: a backend named by a selector always has its sub-config,   *)
(* built by one constructor call; a backend no selector names has none     *)
(* unless a value for the field itself was handed in, which the validator  *)
(* passes through.  With ai=databricks, search=vector=databricks_vector    *)
(* and nothing handed in, one DatabricksConfig is built and bedrock and    *)
(* opensearch are null.                                                    *)
(***************************************************************************)
C1_SubConfigIffSelectedUnlessGiven ==
    resolved.ok =>
        /\ \A f \in Swappable :
            /\ Names(resolved.snap.sel, f) =>
                    /\ resolved.snap[f].kind = "config"
                    /\ resolved.snap[f].model = ModelOf(f)
                    /\ resolved.built[f] = 1
            /\ env.given[f] = None =>
                    ((resolved.snap[f] # None) <=> Names(resolved.snap.sel, f))
        /\ (AllDatabricks(resolved.snap.sel) /\ \A f \in Swappable : env.given[f] = None) =>
                /\ resolved.built = [f \in Swappable |->
                                        IF f = "databricks" THEN 1 ELSE 0]
                /\ resolved.snap.bedrock = None
                /\ resolved.snap.opensearch = None

C1_Witness ==
    /\ resolved.ok
    /\ AllDatabricks(resolved.snap.sel)
    /\ \A f \in Swappable : env.given[f] = None
    /\ resolved.snap.databricks.kind = "config"
    /\ resolved.snap.bedrock = None

(***************************************************************************)
(* C6.  A family is activated when the validated selectors name it; it     *)
(* lacks a required field when the environment does not hold it.           *)
(***************************************************************************)
Activated(e, f) == Names(Values(e), f)

Lacking(e) == {f \in Swappable : Activated(e, f) /\ MissingOf(ModelOf(f), e) # {}}

NamesMissing(r, e, f) ==
    \E x \in r.errors :
        /\ x.loc = f
        /\ x.model = ModelOf(f)
        /\ x.fields = MissingOf(ModelOf(f), e)
        /\ x.fields # {}

InfraLacking(e) ==
    {f \in Infrastructure : MissingOf(ModelOf(f), e) # {}}

C7_InfrastructureAlwaysPresent ==
    /\ resolved.ok =>
            \A f \in Infrastructure :
                /\ resolved.snap[f].kind = "config"
                /\ resolved.snap[f].model = ModelOf(f)
    /\ (Called /\ InfraLacking(env) # {}) =>
            /\ ~resolved.ok
            /\ resolved.snap = NoSnapshot

C7_Witness ==
    /\ resolved.ok
    /\ resolved.snap.sel.ai_provider = "databricks"
    /\ resolved.snap.bedrock = None
    /\ resolved.snap.security.kind = "config"
    /\ resolved.snap.s3.kind = "config"

(***************************************************************************)
(* SpecSettings: the module app.core.config in a process with threads.     *)
(*                                                                         *)
(* Importing the module runs its body under the import lock: it defines    *)
(* get_settings with an empty lru_cache and, on its last line, calls it    *)
(* and binds the result to `settings`.  An exception in the body leaves    *)
(* the module unloaded; the next import runs the body again.  A caller     *)
(* reaches get_settings only through the loaded module.                    *)
(*                                                                         *)
(* One get_settings() call is three steps of functools.lru_cache: look the *)
(* key up (a hit returns the cached object), run SystemConfig() on a miss, *)
(* store the result unless the key was stored meanwhile.  Other threads    *)
(* run between the steps.                                                  *)
(***************************************************************************)
EnvDefault ==
    [ai |-> Unset, search |-> Unset, vector |-> Unset,
     present |-> RequiredVars, given |-> [f \in Swappable |-> None]]

EnvDatabricks ==
    [EnvDefault EXCEPT !.ai = "databricks", !.search = "databricks_vector",
                       !.vector = "databricks_vector"]

EnvNoSecret ==
    [EnvDefault EXCEPT !.present = RequiredVars \ {<<"SecurityConfig", "secret_key">>}]

EnvNoWorkspaceUrl ==
    [EnvDatabricks EXCEPT
        !.present = RequiredVars \ {<<"DatabricksConfig", "workspace_url">>}]

EnvSamples == {EnvDefault, EnvDatabricks, EnvNoSecret, EnvNoWorkspaceUrl}

InitSettings ==
    /\ env \in EnvSamples
    /\ resolved = NoCall
    /\ SettingsIdle
    /\ FactoryIdle
    /\ ContractsIdle

\* the environment or the .env file is edited between two readings
EnvChange ==
    /\ \E e \in EnvSamples \ {env} : env' = e
    /\ UNCHANGED <<factoryVars, contractVars, resolved, settingsVars>>

\* mutant: get_settings without its cache
CacheLookupMiss(c) == 0

\* lru_cache: value found for the (only) key, 0 on a miss
CacheLookup(c) == c

\* lru_cache after the wrapped call: the key is stored unless another call
\* stored it while this one ran
CacheStore(c, r) == IF c = 0 THEN r ELSE c

\* mutant: the cache remembers that the call raised
CacheOnRaiseMemo(c) == -1

\* lru_cache when the wrapped call raises: the exception leaves the wrapper
\* before anything is stored
CacheOnRaise(c) == c

\* `import app.core.config`: may a caller use get_settings yet?
Importable(state) == state = "unloaded"
Callable(state) == state = "loaded"

ImportBegin(t) ==
    /\ pc[t] = "idle"
    /\ Importable(modState)
    /\ modState' = "importing"
    /\ cache' = 0
    /\ settings' = 0
    /\ pc' = [pc EXCEPT ![t] = "lookup"]
    /\ ctx' = [ctx EXCEPT ![t] = "import"]
    /\ UNCHANGED <<failed, factoryVars, contractVars, env, resolved, heap, local, rets, calls, lastDict>>

CallBegin(t) ==
    /\ pc[t] = "idle"
    /\ Callable(modState)
    /\ calls < MaxCalls
    /\ calls' = calls + 1
    /\ pc' = [pc EXCEPT ![t] = "lookup"]
    /\ ctx' = [ctx EXCEPT ![t] = "call"]
    /\ UNCHANGED <<failed, factoryVars, contractVars, env, resolved, modState, cache, settings, heap, local, rets, lastDict>>

\* get_settings returns the instance id to thread t
Deliver(t, id) ==
    /\ pc' = [pc EXCEPT ![t] = "idle"]
    /\ IF ctx[t] = "import"
       THEN /\ settings' = id
            /\ modState' = "loaded"
            /\ UNCHANGED rets
       ELSE /\ rets' = rets \cup {id}
            /\ UNCHANGED <<settings, modState>>

Lookup(t) ==
    /\ pc[t] = "lookup"
    /\ IF CacheLookup(cache) # 0
       THEN Deliver(t, CacheLookup(cache))
       ELSE /\ pc' = [pc EXCEPT ![t] = "construct"]
            /\ UNCHANGED <<settings, modState, rets>>
    /\ UNCHANGED <<failed, factoryVars, contractVars, env, resolved, cache, heap, ctx, local, calls, lastDict>>

ConstructStep(t) ==
    /\ pc[t] = "construct"
    /\ LET r == SystemConfig(env)
       IN IF r.ok
          THEN /\ heap' = Append(heap, r.snap)
               /\ local' = [local EXCEPT ![t] = Len(heap) + 1]
               /\ pc' = [pc EXCEPT ![t] = "store"]
               /\ UNCHANGED <<modState, cache, failed>>
          ELSE /\ pc' = [pc EXCEPT ![t] = "idle"]
               /\ modState' = IF ctx[t] = "import" THEN "unloaded" ELSE modState
               /\ cache' = CacheOnRaise(cache)
               /\ failed' = TRUE
               /\ UNCHANGED <<heap, local>>
    /\ UNCHANGED <<factoryVars, contractVars, env, resolved, settings, ctx, rets, calls, lastDict>>

Store(t) ==
    /\ pc[t] = "store"
    /\ cache' = CacheStore(cache, local[t])
    /\ Deliver(t, local[t])
    /\ UNCHANGED <<failed, factoryVars, contractVars, env, resolved, heap, ctx, local, calls, lastDict>>

\* instances a caller holds a reference to
Held == rets \cup ({settings} \ {0})

\* SystemConfig.get_provider_config: config.dict() is a copy, None for a
\* null sub-config and for an unknown provider type
ProviderTypes == Swappable \cup Infrastructure \cup {"unknown"}

get_provider_config(self, provider_type) ==
    IF provider_type \in Swappable \cup Infrastructure
    THEN (IF self[provider_type] # None
          THEN [self[provider_type] EXCEPT !.kind = "dict"]
          ELSE None)
    ELSE None

GetProviderConfig ==
    /\ \E id \in Held, ty \in ProviderTypes :
            lastDict' = get_provider_config(heap[id], ty)
    /\ UNCHANGED <<failed, factoryVars, contractVars, env, resolved, modState, cache, settings, heap, pc, ctx, local,
                   rets, calls>>

\* Assignment to an attribute of a held instance.  SystemConfig.Config sets
\* env_file, env_file_encoding and case_sensitive only: allow_mutation keeps
\* its default (True) and validate_assignment its default (False), so the
\* assignment of a declared field is carried out as given.
AllowMutation == TRUE

SetAttrSelector ==
    /\ AllowMutation
    /\ \E id \in Held, v \in AILiteral :
            /\ heap[id].sel.ai_provider # v
            /\ heap' = [heap EXCEPT ![id].sel.ai_provider = v]
    /\ UNCHANGED <<failed, factoryVars, contractVars, env, resolved, modState, cache, settings, pc, ctx, local, rets,
                   calls, lastDict>>

SetAttrSubConfig ==
    /\ AllowMutation
    /\ \E id \in Held, f \in Swappable :
            /\ heap[id][f] # None
            /\ heap' = [heap EXCEPT ![id][f] = None]
    /\ UNCHANGED <<failed, factoryVars, contractVars, env, resolved, modState, cache, settings, pc, ctx, local, rets,
                   calls, lastDict>>

NextSettings ==
    \/ EnvChange
    \/ \E t \in Threads : ImportBegin(t)
    \/ \E t \in Threads : CallBegin(t)
    \/ \E t \in Threads : Lookup(t)
    \/ \E t \in Threads : ConstructStep(t)
    \/ \E t \in Threads : Store(t)
    \/ GetProviderConfig
    \/ SetAttrSelector
    \/ SetAttrSubConfig

SpecSettings == InitSettings /\ [][NextSettings]_vars

(***************************************************************************)
(* C2: every get_settings call of the process, from whichever thread,      *)
(* returns the one instance bound to `settings`, and no second instance is *)
(* ever built.                                                             *)
(***************************************************************************)
C2_OneSnapshotInstance ==
    /\ Len(heap) <= 1
    /\ Cardinality(Held) <= 1
    /\ \A id \in rets : id = settings /\ id = cache

\* one call has returned the instance and every thread is inside a further
\* get_settings call at the same time
C2_Witness ==
    /\ \A t \in Threads : pc[t] = "lookup" /\ ctx[t] = "call"
    /\ rets = {settings}
    /\ settings # 0

(***************************************************************************)
(* C10, as stated: once an instance exists none of its fields changes.     *)
(***************************************************************************)
C10_SnapshotReadOnly ==
    [][\A id \in 1 .. Len(heap) : heap'[id] = heap[id]]_vars

(***************************************************************************)
(* SpecFactory: ProviderFactory.                                           *)
(***************************************************************************)
\* mutant: an existing entry is kept (setdefault)
register_search_provider_keep(reg, name, provider_class) ==
    IF reg["search"][name] = NotRegistered
    THEN [reg EXCEPT !["search"][name] = provider_class]
    ELSE reg

register_search_provider(reg, name, provider_class) ==
    [reg EXCEPT !["search"][name] = provider_class]

register_vector_provider(reg, name, provider_class) ==
    [reg EXCEPT !["vector"][name] = provider_class]

\* mutant: one dictionary shared by the ai and search capabilities
register_ai_provider_shared(reg, name, provider_class) ==
    [reg EXCEPT !["ai"][name] = provider_class, !["search"][name] = provider_class]

register_ai_provider(reg, name, provider_class) ==
    [reg EXCEPT !["ai"][name] = provider_class]

\* provider_class(): a subclass of an ABC that leaves an abstract method
\* undefined cannot be instantiated (TypeError); any other class can
Instantiate(provider_class) ==
    IF AbstractMethods(provider_class.base) \subseteq provider_class.methods
    THEN [outcome |-> "instance", cls |-> provider_class, mentions |-> {}]
    ELSE [outcome |-> "TypeError", cls |-> provider_class, mentions |-> {}]

\* mutant: the message leaves the requested name out
UnknownUnnamed(capability, provider_name) ==
    [outcome |-> "ValueError", cls |-> NotRegistered,
     mentions |-> {<<"capability", capability>>}]

\* raise ValueError(f"Unknown <capability> provider: {provider_name}")
Unknown(capability, provider_name) ==
    [outcome |-> "ValueError", cls |-> NotRegistered,
     mentions |-> {<<"capability", capability>>, <<"name", provider_name>>}]

create_search_provider(reg, provider_name) ==
    IF reg["search"][provider_name] = NotRegistered
    THEN Unknown("search", provider_name)
    ELSE Instantiate(reg["search"][provider_name])

\* mutant: the vector factory consults the search registry
create_vector_provider_in_search(reg, provider_name) ==
    IF reg["search"][provider_name] = NotRegistered
    THEN [outcome |-> "ValueError", cls |-> NotRegistered,
          mentions |-> {<<"capability", "vector">>, <<"name", provider_name>>}]
    ELSE Instantiate(reg["search"][provider_name])

create_vector_provider(reg, provider_name) ==
    IF reg["vector"][provider_name] = NotRegistered
    THEN Unknown("vector", provider_name)
    ELSE Instantiate(reg["vector"][provider_name])

create_ai_provider(reg, provider_name) ==
    IF reg["ai"][provider_name] = NotRegistered
    THEN Unknown("ai", provider_name)
    ELSE Instantiate(reg["ai"][provider_name])

\* mutant: the factory initializes what it builds
NewInstanceInitialized(provider_class) ==
    [cls |-> provider_class, state |-> "Initialized",
     invoked |-> {"__init__", "initialize"}]

\* the object `provider_class()` leaves in the caller's hands: the factory has
\* run its constructor and nothing else
NewInstance(provider_class) ==
    [cls |-> provider_class, state |-> "Constructed", invoked |-> {"__init__"}]

RegisterOf(capability, reg, name, provider_class) ==
    CASE capability = "search" -> register_search_provider(reg, name, provider_class)
      [] capability = "vector" -> register_vector_provider(reg, name, provider_class)
      [] capability = "ai" -> register_ai_provider(reg, name, provider_class)

CreateOf(capability, reg, name) ==
    CASE capability = "search" -> create_search_provider(reg, name)
      [] capability = "vector" -> create_vector_provider(reg, name)
      [] capability = "ai" -> create_ai_provider(reg, name)

RegisteredNames(reg, capability) ==
    {n \in ProviderNames : reg[capability][n] # NotRegistered}

InitFactory ==
    /\ env = EnvDefault
    /\ resolved = NoCall
    /\ SettingsIdle
    /\ FactoryIdle
    /\ ContractsIdle

Registered(op, c, n, k) ==
    /\ nreg < MaxRegister
    /\ nreg' = nreg + 1
    /\ registry' = RegisterOf(c, registry, n, k)
    /\ latest' = [latest EXCEPT ![c][n] = k]
    /\ first' = IF first[c][n] = NotRegistered THEN [first EXCEPT ![c][n] = k] ELSE first
    /\ lastResult' =
            [op |-> op, capability |-> c, name |-> n, outcome |-> "ok", cls |-> k,
             mentions |-> {}, registered |-> RegisteredNames(registry, c),
             expected |-> k]
    /\ UNCHANGED <<obj, env, resolved, settingsVars, contractVars>>

\* ProviderFactory.register_<capability>_provider(name, provider_class)
Register ==
    \E c \in Capabilities, n \in ProviderNames, k \in Classes :
        Registered("register", c, n, k)

\* @register_<capability>_provider(name) applied to a class: registers the
\* class and returns it
Decorate ==
    \E c \in Capabilities, n \in ProviderNames, k \in Classes :
        Registered("decorator", c, n, k)

\* ProviderFactory.create_<capability>_provider(provider_name)
Create ==
    /\ \E c \in Capabilities, n \in ProviderNames :
            LET r == CreateOf(c, registry, n)
            IN /\ lastResult' =
                    [op |-> "create", capability |-> c, name |-> n,
                     outcome |-> r.outcome, cls |-> r.cls, mentions |-> r.mentions,
                     registered |-> RegisteredNames(registry, c),
                     expected |-> latest[c][n]]
               /\ obj' = IF r.outcome = "instance" THEN NewInstance(r.cls) ELSE obj
    /\ UNCHANGED <<registry, latest, first, nreg, env, resolved, settingsVars, contractVars>>

\* The caller awaits obj.initialize(config).  The method is abstract in the
\* three ABCs; a concrete backend's initialize returns or raises, and only a
\* return moves the instance to Initialized.
Initialize ==
    /\ obj.state # "none"
    /\ "initialize" \in obj.cls.methods
    /\ \E returns \in BOOLEAN :
            obj' = [obj EXCEPT !.state = IF returns THEN "Initialized" ELSE @]
    /\ UNCHANGED <<registry, latest, first, nreg, lastResult, env, resolved,
                   settingsVars, contractVars>>

NextFactory == Register \/ Decorate \/ Create \/ Initialize

SpecFactory == InitFactory /\ [][NextFactory]_vars

Created == lastResult.op = "create"

\* the requested name was registered for the capability when create ran
WasRegistered == lastResult.name \in lastResult.registered

(***************************************************************************)
(* C3: create for a name that is not registered for the capability raises  *)
(* the unknown-provider error and returns no instance.                     *)
(***************************************************************************)
C3_UnregisteredAlwaysFails ==
    (Created /\ ~WasRegistered) =>
        /\ lastResult.outcome = "ValueError"
        /\ lastResult.cls = NotRegistered

\* a create that failed although other names and capabilities are registered
C3_Witness ==
    /\ Created
    /\ ~WasRegistered
    /\ lastResult.outcome = "ValueError"
    /\ nreg >= 2
    /\ \E c \in Capabilities \ {lastResult.capability} :
            registry[c][lastResult.name] # NotRegistered

(***************************************************************************)
(* C4, as stated: create for a registered pair returns an instance whose   *)
(* class has every method of the capability's interface.                   *)
(***************************************************************************)
C4_RegisteredYieldsFullImplementation ==
    (Created /\ WasRegistered) =>
        /\ lastResult.outcome = "instance"
        /\ AbstractMethods(InterfaceOf(lastResult.capability))
                \subseteq lastResult.cls.methods

(***************************************************************************)
(* C5: a register call never fails and replaces the entry of its pair, so  *)
(* create invokes the class of the most recent register call of the pair.  *)
(***************************************************************************)
C5_LastRegistrationWins ==
    /\ lastResult.op \in {"register", "decorator"} =>
            /\ lastResult.outcome = "ok"
            /\ registry[lastResult.capability][lastResult.name] = lastResult.cls
    /\ \A c \in Capabilities, n \in ProviderNames : registry[c][n] = latest[c][n]
    /\ (Created /\ WasRegistered) =>
            /\ lastResult.cls = lastResult.expected
            /\ lastResult.outcome \in {"instance", "TypeError"}

\* a create after the pair was registered a second time with another class
C5_Witness ==
    /\ Created
    /\ lastResult.outcome = "instance"
    /\ lastResult.cls = FullSearch
    /\ first[lastResult.capability][lastResult.name] = Plain

(***************************************************************************)
(* C8, as stated: the error of create for an unregistered pair names the   *)
(* capability, the requested name and every name registered for the        *)
(* capability.                                                             *)
(***************************************************************************)
C8_ErrorListsRegisteredNames ==
    (Created /\ lastResult.outcome = "ValueError") =>
        /\ <<"capability", lastResult.capability>> \in lastResult.mentions
        /\ <<"name", lastResult.name>> \in lastResult.mentions
        /\ \A n \in lastResult.registered : <<"registered", n>> \in lastResult.mentions

(***************************************************************************)
(* C8, amended: the error names the capability and the requested name, and *)
(* nothing else; it does not list the registered names.                    *)
(***************************************************************************)
C8_ErrorNamesCapabilityAndName ==
    (Created /\ ~WasRegistered) =>
        /\ lastResult.outcome = "ValueError"
        /\ lastResult.mentions =
                {<<"capability", lastResult.capability>>, <<"name", lastResult.name>>}

\* create(ai, "unknown-model") fails while another AI provider is registered
C8_Witness ==
    /\ Created
    /\ lastResult.capability = "ai"
    /\ lastResult.name = "unknown-model"
    /\ lastResult.outcome = "ValueError"
    /\ lastResult.registered = {"opensearch"}

(***************************************************************************)
(* SpecContracts: construction of the pydantic data contracts.             *)
(*                                                                         *)
(* Citation declares confidence_score: float, provenance_chain: List[str]  *)
(* and page_number: int with no Field constraint and no validator, so      *)
(* construction checks the types of the arguments and nothing else.        *)
(* Scores are in tenths (15 is 1.5).  An argument is a number, a string    *)
(* that is no number, a list of strings, or absent.                        *)
(***************************************************************************)
Number(n) == [type |-> "number", val |-> n, items |-> << >>]
NotANumber == [type |-> "str", val |-> 0, items |-> << >>]
ListOf(items) == [type |-> "list", val |-> 0, items |-> items]
Missing == [type |-> "missing", val |-> 0, items |-> << >>]

Stages == {"retrieval", "ranking", "excerpt"}

BoundedSeq(S, n) == UNION {[1 .. m -> S] : m \in 0 .. n}

ScoreArgs == {Number(n) : n \in {-5, 0, 5, 10, 15}} \cup {NotANumber}
ChainArgs == {ListOf(q) : q \in BoundedSeq(Stages, MaxChain)} \cup {Missing}
PageArgs == {Number(n) : n \in {-1, 1}} \cup {NotANumber}

\* Citation(confidence_score=..., provenance_chain=..., page_number=...)
Citation(confidence_score, provenance_chain, page_number) ==
    IF /\ confidence_score.type = "number"
       /\ provenance_chain.type = "list"
       /\ page_number.type = "number"
    THEN [ok |-> TRUE, called |-> TRUE,
          confidence_score |-> confidence_score.val,
          provenance_chain |-> provenance_chain.items,
          page_number |-> page_number.val]
    ELSE [NoCitation EXCEPT !.called = TRUE]

InitContracts ==
    /\ env = EnvDefault
    /\ resolved = NoCall
    /\ SettingsIdle
    /\ FactoryIdle
    /\ ContractsIdle

NewCitation ==
    /\ \E s \in ScoreArgs, q \in ChainArgs, pg \in PageArgs :
            citation' = Citation(s, q, pg)
    /\ UNCHANGED <<env, resolved, settingsVars, factoryVars, query, roundtrip, embedding>>

NextContracts == NewCitation

SpecContracts == InitContracts /\ [][NextContracts]_vars

(***************************************************************************)
(* C9, as stated: every Citation that exists has a provenance chain of     *)
(* length >= 1 and a confidence score within [0, 1].                       *)
(***************************************************************************)
C9_CitationValidated ==
    citation.ok =>
        /\ Len(citation.provenance_chain) >= 1
        /\ citation.confidence_score >= 0
        /\ citation.confidence_score <= 10

(***************************************************************************)
(* SpecQuery: SearchQuery and SearchFilters.                               *)
(*                                                                         *)
(* Both are pydantic models without validators or Field constraints: an    *)
(* argument is converted to the declared type of its field or the          *)
(* construction fails, and a field left out takes its default.  The wire   *)
(* form is the JSON object of .json(): an enum member becomes its value, a *)
(* datetime its ISO 8601 string, None becomes null; parsing hands the      *)
(* object's members to the constructor.  Arguments that pydantic would     *)
(* coerce from yet another type (a number for a str field, a numeric       *)
(* string for an int field) are not among the arguments drawn.             *)
(***************************************************************************)
SearchTypeMembers == {"KEYWORD", "SEMANTIC", "HYBRID"}
DocumentTypeMembers == {"CSR", "TMF"}

EnumMembers(enum) ==
    CASE enum = "SearchType" -> SearchTypeMembers
      [] enum = "DocumentType" -> DocumentTypeMembers

\* the value of a member: KEYWORD = "keyword", ..., CSR = "CSR", TMF = "TMF"
EnumValue(enum, member) ==
    CASE member = "KEYWORD" -> "keyword"
      [] member = "SEMANTIC" -> "semantic"
      [] member = "HYBRID" -> "hybrid"
      [] member = "CSR" -> "CSR"
      [] member = "TMF" -> "TMF"

\* datetimes of the model and their isoformat()
Dates == {1, 2}

Iso(n) ==
    CASE n = 1 -> "2024-01-01T00:00:00"
      [] n = 2 -> "2024-06-30T12:30:00"

IsoStrings == {Iso(n) : n \in Dates}

ParseIso(str) == CHOOSE n \in Dates : Iso(n) = str

ValidateStr(x) == IF x.t = "str" THEN x ELSE VError

ValidateInt(x) == IF x.t = "int" THEN x ELSE VError

ValidateListOfStr(x) == IF x.t = "list" THEN x ELSE VError

\* enum field: a member, or the value of a member
ValidateEnum(enum, x) ==
    IF x.t = "enum" /\ x.s \in EnumMembers(enum)
    THEN x
    ELSE IF x.t = "str" /\ \E m \in EnumMembers(enum) : EnumValue(enum, m) = x.s
    THEN VEnum(CHOOSE m \in EnumMembers(enum) : EnumValue(enum, m) = x.s)
    ELSE VError

ValidateDatetime(x) ==
    IF x.t = "datetime"
    THEN x
    ELSE IF x.t = "str" /\ x.s \in IsoStrings
    THEN DateTime(ParseIso(x.s))
    ELSE Scalar("error", "", 0)

\* Dict[str, datetime]
ValidateDateRange(x) ==
    IF x.t # "dict"
    THEN VError
    ELSE IF \E kv \in x.d : ValidateDatetime(kv[2]).t = "error"
    THEN VError
    ELSE VDict({<<kv[1], ValidateDatetime(kv[2])>> : kv \in x.d})

\* Optional[...] = None
Absent(x) == x.t \in {"none", "missing"}

\* SearchFilters(**a)
SearchFilters(a) ==
    LET v == [document_type |-> IF Absent(a.document_type) THEN VNone
                                ELSE ValidateEnum("DocumentType", a.document_type),
              study_id |-> IF Absent(a.study_id) THEN VNone
                           ELSE ValidateStr(a.study_id),
              section_codes |-> IF Absent(a.section_codes) THEN VNone
                                ELSE ValidateListOfStr(a.section_codes),
              date_range |-> IF Absent(a.date_range) THEN VNone
                             ELSE ValidateDateRange(a.date_range),
              access_level |-> IF Absent(a.access_level) THEN VNone
                               ELSE ValidateStr(a.access_level)]
    IN  IF \E f \in DOMAIN v : v[f].t = "error"
        THEN [ok |-> FALSE, value |-> NoFilters]
        ELSE [ok |-> TRUE, value |-> v]

\* SearchQuery(**a): text is required, search_type defaults to KEYWORD,
\* filters to SearchFilters(), limit to 20, offset to 0
SearchQuery(a) ==
    LET filters == IF a.filters_given THEN SearchFilters(a.filters)
                   ELSE [ok |-> TRUE, value |-> NoFilters]
        v == [text |-> IF a.text.t = "missing" THEN VError ELSE ValidateStr(a.text),
              search_type |-> IF a.search_type.t = "missing" THEN VEnum("KEYWORD")
                              ELSE ValidateEnum("SearchType", a.search_type),
              filters |-> filters.value,
              limit |-> IF a.limit.t = "missing" THEN VInt(20) ELSE ValidateInt(a.limit),
              offset |-> IF a.offset.t = "missing" THEN VInt(0)
                         ELSE ValidateInt(a.offset)]
    IN  IF \/ ~filters.ok
           \/ \E f \in {"text", "search_type", "limit", "offset"} : v[f].t = "error"
        THEN [ok |-> FALSE, called |-> TRUE, value |-> NoQueryValue]
        ELSE [ok |-> TRUE, called |-> TRUE, value |-> v]

\* mutant: a member is written by its name
SerializeEnumByName(enum, x) ==
    IF x.t = "none" THEN VNone ELSE VStr(x.s)

\* .json(): the wire form of one field value
SerializeEnum(enum, x) ==
    IF x.t = "none" THEN VNone ELSE VStr(EnumValue(enum, x.s))

SerializeDateRange(x) ==
    IF x.t = "none" THEN VNone
    ELSE VDict({<<kv[1], IsoString(Iso(kv[2].n))>> : kv \in x.d})

SerializeFilters(f) ==
    [document_type |-> SerializeEnum("DocumentType", f.document_type),
     study_id |-> f.study_id,
     section_codes |-> f.section_codes,
     date_range |-> SerializeDateRange(f.date_range),
     access_level |-> f.access_level]

SerializeQuery(v) ==
    [text |-> v.text,
     search_type |-> SerializeEnum("SearchType", v.search_type),
     filters_given |-> TRUE,
     filters |-> SerializeFilters(v.filters),
     limit |-> v.limit,
     offset |-> v.offset]

\* SearchQuery.parse_raw: the members of the JSON object are the arguments
ParseQuery(w) == SearchQuery(w)

\* arguments drawn for the construction
TextArgs == {VStr("adverse events"), VStr(""), VMissing}
SearchTypeArgs ==
    {VEnum(m) : m \in SearchTypeMembers} \cup {VStr("hybrid"), VStr("fuzzy"), VMissing}
DocumentTypeArgs == {VMissing, VEnum("CSR"), VStr("TMF")}
StudyIdArgs == {VMissing, VStr("STUDY-001")}
SectionCodeArgs == {VNone, VList(<< >>), VList(<<"9.1", "11.2">>)}
DateRangeArgs ==
    {VMissing, VDict({}),
     VDict({<<"start", DateTime(1)>>}),
     VDict({<<"start", IsoString(Iso(1))>>, <<"end", DateTime(2)>>})}
AccessLevelArgs == {VMissing, VStr("restricted")}
LimitArgs == {VMissing, VInt(-1), VInt(0), VInt(1000)}
OffsetArgs == {VMissing, VInt(-5), VInt(5)}

FiltersNotGiven ==
    [document_type |-> VMissing, study_id |-> VMissing, section_codes |-> VMissing,
     date_range |-> VMissing, access_level |-> VMissing]

FilterArgs ==
    [document_type : DocumentTypeArgs, study_id : StudyIdArgs,
     section_codes : SectionCodeArgs, date_range : DateRangeArgs,
     access_level : AccessLevelArgs]

QueryArgs ==
    [text : TextArgs, search_type : SearchTypeArgs, filters_given : {TRUE},
     filters : FilterArgs, limit : LimitArgs, offset : OffsetArgs]
        \cup [text : TextArgs, search_type : SearchTypeArgs, filters_given : {FALSE},
              filters : {FiltersNotGiven}, limit : LimitArgs, offset : OffsetArgs]

InitQuery ==
    /\ env = EnvDefault
    /\ resolved = NoCall
    /\ SettingsIdle
    /\ FactoryIdle
    /\ ContractsIdle

NewSearchQuery ==
    /\ ~query.called
    /\ \E a \in QueryArgs : query' = SearchQuery(a)
    /\ UNCHANGED <<env, resolved, settingsVars, factoryVars, citation, roundtrip,
                   embedding>>

\* SearchQuery.parse_raw(q.json())
RoundTrip ==
    /\ query.ok
    /\ ~roundtrip.called
    /\ roundtrip' = ParseQuery(SerializeQuery(query.value))
    /\ UNCHANGED <<env, resolved, settingsVars, factoryVars, citation, query, embedding>>

NextQuery == NewSearchQuery \/ RoundTrip

SpecQuery == InitQuery /\ [][NextQuery]_vars

C13_PaginationValidated ==
    query.ok =>
        /\ query.value.limit.n >= 0
        /\ query.value.offset.n >= 0

(***************************************************************************)
(* SpecEmbedding: EmbeddingResponse declares embedding: List[float] and    *)
(* dimension: int side by side, with no validator relating them.           *)
(* Components are in tenths.                                               *)
(***************************************************************************)
Components == {-5, 0, 5}

EmbeddingArgs == {ListOf(q) : q \in BoundedSeq(Components, MaxDim)} \cup {Missing}
DimensionArgs == {Number(n) : n \in -1 .. MaxDim + 1} \cup {NotANumber}

\* EmbeddingResponse(embedding=..., dimension=..., model_info={}, generated_at=...)
EmbeddingResponse(vector, dimension) ==
    IF vector.type = "list" /\ dimension.type = "number"
    THEN [ok |-> TRUE, called |-> TRUE, embedding |-> vector.items,
          dimension |-> dimension.val]
    ELSE [NoEmbedding EXCEPT !.called = TRUE]

InitEmbedding ==
    /\ env = EnvDefault
    /\ resolved = NoCall
    /\ SettingsIdle
    /\ FactoryIdle
    /\ ContractsIdle

NewEmbeddingResponse ==
    /\ \E v \in EmbeddingArgs, n \in DimensionArgs :
            embedding' = EmbeddingResponse(v, n)
    /\ UNCHANGED <<env, resolved, settingsVars, factoryVars, citation, query, roundtrip>>

NextEmbedding == NewEmbeddingResponse

SpecEmbedding == InitEmbedding /\ [][NextEmbedding]_vars

(***************************************************************************)
(* C14, as stated: the embedding of every EmbeddingResponse that exists    *)
(* has as many components as its dimension field says.                     *)
(***************************************************************************)
C14_LengthEqualsDimension ==
    embedding.ok => Len(embedding.embedding) = embedding.dimension

(***************************************************************************)
(* C12: a successful create leaves the caller with a newly constructed     *)
(* instance of the registered class in state Constructed, on which the     *)
(* factory has run the constructor and nothing else, whatever state the    *)
(* instance held before was in; an instance becomes Initialized only in a  *)
(* step of its own initialize that returns, never in a factory call.       *)
(***************************************************************************)
C12_CreateOnlyConstructs ==
    [][/\ (lastResult' # lastResult /\ lastResult'.op = "create"
                /\ lastResult'.outcome = "instance") =>
            /\ obj'.cls = lastResult'.cls
            /\ obj'.state = "Constructed"
            /\ obj'.invoked = {"__init__"}
       /\ (obj'.state = "Initialized" /\ obj.state # "Initialized") =>
            /\ obj.state = "Constructed"
            /\ obj'.cls = obj.cls
            /\ obj'.invoked = obj.invoked
            /\ lastResult' = lastResult
            /\ registry' = registry
       /\ "initialize" \notin obj'.invoked]_vars

\* an instance obtained from create has been initialized by its caller
C12_Witness ==
    /\ Created
    /\ lastResult.outcome = "instance"
    /\ obj.cls = lastResult.cls
    /\ obj.state = "Initialized"
    /\ obj.invoked = {"__init__"}

(***************************************************************************)
(* C15: a register call changes the dictionary of its own capability only, *)
(* a create call changes no dictionary, and a name registered for one      *)
(* capability only is unknown to create for the other two.                 *)
(***************************************************************************)
C15_RegistriesIndependent ==
    [][/\ nreg' # nreg =>
            /\ lastResult'.op \in {"register", "decorator"}
            /\ \A c \in Capabilities \ {lastResult'.capability} :
                    registry'[c] = registry[c]
            /\ \A n \in ProviderNames \ {lastResult'.name} :
                    registry'[lastResult'.capability][n]
                        = registry[lastResult'.capability][n]
            /\ registry'[lastResult'.capability][lastResult'.name] = lastResult'.cls
       /\ nreg' = nreg => registry' = registry
       /\ (lastResult'.op = "create"
                /\ registry'[lastResult'.capability][lastResult'.name] = NotRegistered) =>
            lastResult'.outcome = "ValueError"]_vars

\* create has failed for a name that the two other capabilities have registered
C15_Witness ==
    /\ Created
    /\ lastResult.outcome = "ValueError"
    /\ \A c \in Capabilities \ {lastResult.capability} :
            registry[c][lastResult.name] # NotRegistered
    /\ registry[lastResult.capability][lastResult.name] = NotRegistered

(***************************************************************************)
(* C16: a get_settings call that raises caches nothing and builds no       *)
(* snapshot; while nothing is cached a call runs the construction, and a   *)
(* construction that succeeds builds the snapshot of the environment as it *)
(* is at that moment; once a snapshot is cached it stays cached, and every *)
(* later call returns it without constructing, whatever the environment    *)
(* has become.                                                             *)
(***************************************************************************)
C16_FailureNotMemoized ==
    [][/\ (failed' /\ ~failed) =>
            /\ ~SystemConfig(env).ok
            /\ cache' = 0
            /\ heap' = heap
       /\ \A t \in Threads :
            (pc[t] = "lookup" /\ pc'[t] # "lookup" /\ cache = 0) => pc'[t] = "construct"
       /\ Len(heap') > Len(heap) =>
            /\ cache = 0
            /\ SystemConfig(env).ok
            /\ heap' = Append(heap, SystemConfig(env).snap)
       /\ cache # 0 => cache' = cache
       /\ rets' # rets =>
            /\ cache # 0
            /\ rets' = rets \cup {cache}
            /\ Len(heap') = Len(heap)]_vars

\* after a call that raised, a call has succeeded; the environment has since
\* become one that no longer resolves, and a later call returned the cached
\* snapshot
C16_Witness ==
    /\ failed
    /\ modState = "loaded"
    /\ cache # 0
    /\ rets = {cache}
    /\ ~SystemConfig(env).ok

=============================================================================
